---- MODULE Spec2Model ----
(***************************************************************************)
(* AgGaS2-Lab: the physics engine (utils/physics.js) and the App that      *)
(* drives it.                                                              *)
(*                                                                         *)
(* Numbers.  The engine computes on JavaScript doubles.  The emission      *)
(* model is rational in its inputs, so it is modelled in exact rational    *)
(* arithmetic: a radius is a number of tenths of a nanometre, an energy a  *)
(* reduced fraction <<n, d>> of electron-volts, and the two conversions    *)
(* toFixed(3) / toFixed(1) round that exact value half-up to an integer    *)
(* number of thousandths of an eV / tenths of a nanometre.  Where the      *)
(* exact value is a decimal tie, a double a rounding error below it would  *)
(* print one digit lower; the model prints the exact value's digit.        *)
(*                                                                         *)
(* Intensities and weights are fixed-point numbers, counted in 1 / Unit.   *)
(* Math.exp is a product of tabulated powers e^(-2^i / 10^4) carried at    *)
(* 10^-8, Math.pow(c, 1 / 2.4) is e^(ln(c) / 2.4) over the same table;     *)
(* tristimulus values are exact integer sums in units of 10^-8.            *)
(* Every integer stays below 2^31.                                         *)
(***************************************************************************)
EXTENDS Integers, Sequences, FiniteSets, TLC

VARIABLES emArgs, emRet, emPrevArgs, emPrevRet, spArgs, spRet, colArgs, colRet, criRet,
          pipeArgs, pipeRet, pipeRet2, latArgs, latRet, app, memo, scene

emVars == <<emArgs, emRet, emPrevArgs, emPrevRet>>
spVars == <<spArgs, spRet>>
colVars == <<colArgs, colRet, criRet>>
pipeVars == <<pipeArgs, pipeRet, pipeRet2>>
latVars == <<latArgs, latRet>>
appVars == <<app, memo, scene>>
vars == <<emVars, spVars, colVars, pipeVars, latVars, appVars>>

\* the value of a result or argument variable before the call
NoCall == [none |-> TRUE]

(***************************************************************************)
(* Bounds of the explored input sets.                                      *)
(***************************************************************************)
\* radii 0.1 nm .. MaxRadius/10 nm, in tenths of a nanometre
MaxRadius == 60
\* reaction times 0, 5, ..., 5 * MaxTimeIdx minutes
MaxTimeIdx == 20

\* centre wavelengths 380.0, 401.5, ... nm, in tenths of a nanometre
MaxWlIdx == 9
\* widths 5, 10, ..., 5 * MaxFwhmIdx nm
MaxFwhmIdx == 8
\* dopant concentrations 0.00 .. MaxZr/100 mmol, in hundredths of a mmol
MaxZr == 32

\* background level of the spectra handed to the colour function, in 1/Unit
MaxFlat == 100

\* pipeline inputs: radii 2.0, 3.0, ... nm and the App's 3.5 nm, reaction
\* times 30, 40, ... min, dopant concentrations 0.00, 0.05, ... mmol
MaxPipeRadiusIdx == 4
MaxPipeTimeIdx == 6
MaxPipeZrIdx == 6

\* lattice inputs: dopant concentrations 0.00, 0.15, ... mmol; outcomes of the
\* random substitution with at most MaxSubstituted Ga sites turned into Zr
MaxLatZrIdx == 2
MaxSubstituted == 2

\* App: slider positions 0 .. MaxAppTimeIdx of the reaction-time slider and
\* 0, 5, ..., 5 * MaxAppZrIdx of the dopant slider
MaxAppTimeIdx == 12
MaxAppZrIdx == 6

Radii == 1..MaxRadius
Times == {5 * j : j \in 0..MaxTimeIdx}
BaseWls == {3800 + 430 * i : i \in 0..MaxWlIdx}
Fwhms == {5 * i : i \in 1..MaxFwhmIdx}
ZrConcs == 0..MaxZr

(***************************************************************************)
(* Exact rational arithmetic on reduced fractions <<n, d>>, d > 0.         *)
(* Every intermediate product stays below 2^31.                            *)
(***************************************************************************)
Abs(x) == IF x < 0 THEN -x ELSE x

RECURSIVE GCD(_, _)
GCD(a, b) == IF b = 0 THEN a ELSE GCD(b, a % b)

Rat(n, d) ==
    LET g == GCD(Abs(n), Abs(d))
        s == IF d < 0 THEN -1 ELSE 1
    IN  <<s * (n \div g), s * (d \div g)>>

RAdd(x, y) ==
    LET g == GCD(x[2], y[2])
    IN  Rat(x[1] * (y[2] \div g) + y[1] * (x[2] \div g), (x[2] \div g) * y[2])

RNeg(x) == <<-x[1], x[2]>>

RSub(x, y) == RAdd(x, RNeg(y))

RMul(x, y) ==
    LET a == Rat(x[1], y[2])
        b == Rat(y[1], x[2])
    IN  <<a[1] * b[1], a[2] * b[2]>>

RDiv(x, y) == RMul(x, Rat(y[2], y[1]))

\* <<c, (x + y) % n>> for 0 <= x, y < n, where c is 1 if x + y >= n and 0
\* otherwise, without forming x + y
AddMod(x, y, n) ==
    IF x >= n - y THEN <<1, x - (n - y)>> ELSE <<0, x + y>>

\* <<q, r>> with a * b = q * n + r and 0 <= r < n, for 0 <= a < n and b >= 0,
\* by doubling, so that no intermediate exceeds the quotient or n
RECURSIVE MulMod(_, _, _)
MulMod(a, b, n) ==
    IF b = 0 THEN <<0, 0>>
    ELSE LET h == MulMod(a, b \div 2, n)
             d == AddMod(h[2], h[2], n)
             t == IF b % 2 = 1 THEN AddMod(d[2], a, n) ELSE <<0, d[2]>>
         IN  <<2 * h[1] + d[1] + t[1], t[2]>>

\* <<q, r>> with a * b = q * n + r and 0 <= r < n, for a, b >= 0 and n > 0
MulDivMod(a, b, n) ==
    LET h == MulMod(a % n, b, n)
    IN  <<(a \div n) * b + h[1], h[2]>>

\* Number.prototype.toFixed(digits) of the non-negative value scale^-1 * (a * b / n)
\* read as an integer count of the last digit: round half up
\* ("if there are two such n, pick the larger n").
RoundHalfUp(qr, n) == qr[1] + (IF qr[2] >= n - qr[2] THEN 1 ELSE 0)


(***************************************************************************)
(* utils/physics.js: calculateEmissionParams.                              *)
(* radius is in tenths of a nanometre, reactionTime in minutes.            *)
(* energy is the toFixed(3) string read as thousandths of an eV, wl the    *)
(* parseFloat(toFixed(1)) value read as tenths of a nanometre.             *)
(***************************************************************************)
Eg_bulk == Rat(273, 100)

confinement(radiusNm) == RDiv(Rat(8, 10), RMul(radiusNm, radiusNm))

coulomb(radiusNm) == RDiv(Rat(3, 10), radiusNm)

defectShift(radiusNm) == RAdd(Rat(65, 100), RDiv(Rat(1, 10), radiusNm))

\* mutant of timeFactor: the ramp subtracted instead of added
timeFactorRedShift(reactionTime) == RMul(Rat(30 - reactionTime, 1), Rat(17, 6000))

timeFactor(reactionTime) == RMul(Rat(reactionTime - 30, 1), Rat(17, 6000))

\* mutant of shellShift: a shift of 0.9 eV, a slipped decimal point
shellShiftSlipped == Rat(9, 10)

\* mutant of shellShift: a shift of 0.1 eV
shellShiftTenth == Rat(1, 10)

shellShift == Rat(9, 100)

\* mutant of emissionEnergy: the ramp applied without the reactionTime > 30 test
emissionEnergyNoGuard(radius, reactionTime, isCoreShell) ==
    LET radiusNm == Rat(radius, 10)
        base     == RSub(RSub(RAdd(Eg_bulk, confinement(radiusNm)),
                              coulomb(radiusNm)),
                         defectShift(radiusNm))
        timed    == RAdd(base, timeFactor(reactionTime))
    IN  IF isCoreShell THEN RSub(timed, shellShift) ELSE timed

\* the unrounded emissionEnergy after both corrections
emissionEnergy(radius, reactionTime, isCoreShell) ==
    LET radiusNm == Rat(radius, 10)
        base     == RSub(RSub(RAdd(Eg_bulk, confinement(radiusNm)),
                              coulomb(radiusNm)),
                         defectShift(radiusNm))
        timed    == IF reactionTime > 30
                    THEN RAdd(base, timeFactor(reactionTime))
                    ELSE base
    IN  IF isCoreShell THEN RSub(timed, shellShift) ELSE timed

\* x.toFixed(3) for a fraction x, in thousandths
toFixed3(x) ==
    LET a == Abs(x[1])
        m == RoundHalfUp(MulDivMod(a, 1000, x[2]), x[2])
    IN  IF x[1] < 0 THEN -m ELSE m

\* mutant of peakWl: the clamp left out
peakWlNoClamp(E) == RoundHalfUp(MulDivMod(E[2], 12400, E[1]), E[1])

\* peakWl = 1240 / E, clamped by Math.min(Math.max(peakWl, 400), 700), then
\* parseFloat(peakWl.toFixed(1)), in tenths of a nanometre.  1240 / 0 is
\* Infinity and clamps to 700; a negative quotient clamps to 400.
peakWl(E) ==
    IF E[1] = 0 THEN 7000
    ELSE IF E[1] < 0 THEN 4000
    ELSE LET qr == MulDivMod(E[2], 12400, E[1])
         IN  IF qr[1] < 4000 THEN 4000
             ELSE IF qr[1] >= 7000 THEN 7000
             ELSE RoundHalfUp(qr, E[1])

calculateEmissionParams(radius, reactionTime, isCoreShell) ==
    CHOOSE params \in {[energy |-> toFixed3(E), wl |-> peakWl(E)] :
                           E \in {emissionEnergy(radius, reactionTime, isCoreShell)}} : TRUE

(***************************************************************************)
(* Intensities.  Math.exp is transcendental, so an intensity is a          *)
(* fixed-point number: an integer count of 1/Unit.  Every product and      *)
(* quotient is rounded to the nearest count, as a double operation rounds  *)
(* to the nearest double; an intensity below half a count is 0.            *)
(***************************************************************************)
Unit == 10000

\* a * b / n rounded to the nearest integer (half up), for a, b >= 0, n > 0
RoundMulDiv(a, b, n) ==
    CHOOSE rounded \in {RoundHalfUp(MulDivMod(x, y, m), m) :
                            x \in {a}, y \in {b}, m \in {n}} : TRUE

\* x * y of two fixed-point numbers
FMul(x, y) == (x * y + Unit \div 2) \div Unit

\* 10^8 * e^(-2^i / 10^4) for i = 0 .. 17, to the nearest integer
ExpTable ==
    <<99990000, 99980002, 99960008, 99920032, 99840128, 99680511,
      99362044, 98728157, 97472490, 95008863, 90266841, 81481026,
      66391576, 44078414, 19429066, 3774886, 142498, 203>>

\* floor(a * b / 10^8) for 0 <= a, b <= 10^8, by halves of four digits
MulE8(a, b) ==
    LET ah == a \div 10000
        al == a % 10000
        bh == b \div 10000
        bl == b % 10000
    IN  ah * bh + (ah * bl + al * bh + (al * bl) \div 10000) \div 10000

\* 10^8 * e^(-xs / 10^4): the product of the table entries of the binary
\* digits of xs, from digit i upwards
RECURSIVE ExpNegE8(_, _)
ExpNegE8(xs, i) ==
    IF xs = 0 THEN 100000000
    ELSE LET rest == ExpNegE8(xs \div 2, i + 1)
         IN  IF xs % 2 = 1 THEN MulE8(rest, ExpTable[i + 1]) ELSE rest

\* Math.exp(-Math.pow(wl - centerWl, 2) / (2 * Math.pow(sigma, 2))) with
\* sigma = fwhm / 2.355, as a fixed-point intensity.  wl and fwhm are in
\* nanometres, centerWl in tenths of a nanometre.  With d = 10 * wl - centerWl
\* the exponent is d^2 * 2.355^2 / (200 * fwhm^2) = d^2 * 221841 / (8 * 10^6 * fwhm^2);
\* beyond 6.07 sigma the value is below 10^-8 and is 0.
Gaussian(wl, centerWl, fwhm) ==
    LET d == Abs(10 * wl - centerWl)
    IN  IF d * 2355 >= 60700 * fwhm THEN 0
        ELSE LET xs == RoundMulDiv(d * d, 221841, 800 * fwhm * fwhm)
             IN  (ExpNegE8(xs, 0) + 5000) \div 10000

(***************************************************************************)
(* utils/physics.js: generateGaussianSpectrum, getBlueLEDSpectrum.         *)
(* A spectrum is the sequence of samples [wl, intensity] the loop pushes.  *)
(***************************************************************************)
\* mutant of WlLoop: the loop stops before 780
RECURSIVE WlLoopExclusive(_, _)
WlLoopExclusive(wl, visited) ==
    IF wl < 780 THEN WlLoopExclusive(wl + 5, Append(visited, wl)) ELSE visited

\* for (let wl = 380; wl <= 780; wl += 5): the wavelengths the loop visits,
\* in the order of the pushes
RECURSIVE WlLoop(_, _)
WlLoop(wl, visited) ==
    IF wl <= 780 THEN WlLoop(wl + 5, Append(visited, wl)) ELSE visited

Grid == WlLoop(380, <<>>)

generateGaussianSpectrum(centerWl, fwhm) ==
    [i \in DOMAIN Grid |->
        [wl |-> Grid[i], intensity |-> Gaussian(Grid[i], centerWl, fwhm)]]

\* mutant of getBlueLEDSpectrum: the array left by an earlier pipeline run
getBlueLEDSpectrumStale ==
    IF pipeRet = NoCall THEN generateGaussianSpectrum(4550, 20) ELSE pipeRet.spectrum

getBlueLEDSpectrum == generateGaussianSpectrum(4550, 20)

(***************************************************************************)
(* utils/physics.js: generateCompositeSpectrum.                            *)
(* zrConc is in hundredths of a mmol.                                      *)
(***************************************************************************)
zrPeakWl == 470

zrPeakFwhm == 25

\* maxConc = 0.3 mmol, in hundredths of a mmol
maxConc == 30

Min(a, b) == IF a <= b THEN a ELSE b

Max(a, b) == IF a >= b THEN a ELSE b

\* mutant of normalizedConc: Math.max in place of Math.min
normalizedConcMax(zrConc) == Max(RoundMulDiv(zrConc, Unit, maxConc), Unit)

\* mutant of normalizedConc: no saturation at 1.0
normalizedConcUnclamped(zrConc) == RoundMulDiv(zrConc, Unit, maxConc)

\* Math.min(zrConc / maxConc, 1.0)
normalizedConc(zrConc) == Min(RoundMulDiv(zrConc, Unit, maxConc), Unit)

\* 1.0 - normalizedConc
baseWeight(zrConc) == Unit - normalizedConc(zrConc)

\* mutant of zrWeight: the factor 1.5 left out
zrWeightPlain(zrConc) == normalizedConc(zrConc)

\* normalizedConc * 1.5
zrWeight(zrConc) == FMul(normalizedConc(zrConc), 15000)

intensity1(baseWl, fwhm, zrConc, wl) ==
    FMul(baseWeight(zrConc), Gaussian(wl, baseWl, fwhm))

intensity2(zrConc, wl) ==
    FMul(zrWeight(zrConc), Gaussian(wl, 10 * zrPeakWl, zrPeakFwhm))

generateCompositeSpectrum(baseWl, fwhm, zrConc) ==
    [i \in DOMAIN Grid |->
        [wl |-> Grid[i],
         intensity |-> intensity1(baseWl, fwhm, zrConc, Grid[i])
                       + intensity2(zrConc, Grid[i])]]

(***************************************************************************)
(* utils/physics.js: CMF and calculateColorFromSpectrum.                   *)
(* A CMF entry is in ten-thousandths; X, Y, Z are the exact sums of        *)
(* intensity * entry, in units of 10^-8.                                   *)
(***************************************************************************)
CMF ==
    380 :> <<14, 0, 65>> @@ 390 :> <<42, 1, 201>> @@ 400 :> <<143, 4, 679>> @@
    410 :> <<435, 12, 2074>> @@ 420 :> <<1344, 40, 6456>> @@ 430 :> <<2839, 116, 13856>> @@
    440 :> <<3483, 230, 17471>> @@ 450 :> <<3362, 380, 17721>> @@ 460 :> <<2908, 600, 16692>> @@
    470 :> <<1954, 910, 12876>> @@ 480 :> <<956, 1390, 8130>> @@ 490 :> <<320, 2080, 4652>> @@
    500 :> <<49, 3230, 2720>> @@ 510 :> <<93, 5030, 1582>> @@ 520 :> <<633, 7100, 782>> @@
    530 :> <<1655, 8620, 422>> @@ 540 :> <<2904, 9540, 203>> @@ 550 :> <<4334, 9950, 87>> @@
    560 :> <<5945, 9950, 39>> @@ 570 :> <<7621, 9520, 21>> @@ 580 :> <<9163, 8700, 17>> @@
    590 :> <<10263, 7570, 11>> @@ 600 :> <<10622, 6310, 8>> @@ 610 :> <<10026, 5030, 3>> @@
    620 :> <<8544, 3810, 2>> @@ 630 :> <<6424, 2650, 0>> @@ 640 :> <<4479, 1750, 0>> @@
    650 :> <<2835, 1070, 0>> @@ 660 :> <<1649, 610, 0>> @@ 670 :> <<874, 320, 0>> @@
    680 :> <<468, 170, 0>> @@ 690 :> <<227, 82, 0>> @@ 700 :> <<114, 41, 0>> @@
    710 :> <<58, 21, 0>> @@ 720 :> <<29, 10, 0>> @@ 730 :> <<14, 5, 0>>

\* mutant of roundedWl: Math.floor in place of Math.round
roundedWlDown(wl) == (wl \div 10) * 10

\* Math.round(p.wl / 10) * 10
roundedWl(wl) == ((wl + 5) \div 10) * 10

\* mutant of contribution: a missing table entry read as the entry of 730
contributionClamped(p) ==
    LET wl == roundedWl(p.wl)
        k  == IF wl \in DOMAIN CMF THEN wl ELSE 730
    IN  <<p.intensity * CMF[k][1], p.intensity * CMF[k][2], p.intensity * CMF[k][3]>>

\* what one sample adds to X, Y, Z:
\* if (CMF[wl]) { X += p.intensity * CMF[wl][0]; ... }
contribution(p) ==
    LET wl == roundedWl(p.wl)
    IN  IF wl \in DOMAIN CMF
        THEN <<p.intensity * CMF[wl][1], p.intensity * CMF[wl][2], p.intensity * CMF[wl][3]>>
        ELSE <<0, 0, 0>>

\* spectrum.forEach(...): the sums of the contributions of samples lo .. hi
\* (integer sums, taken by halves)
RECURSIVE TristimulusOf(_, _, _)
TristimulusOf(spectrum, lo, hi) ==
    IF lo > hi THEN <<0, 0, 0>>
    ELSE IF lo = hi THEN contribution(spectrum[lo])
    ELSE LET mid == (lo + hi) \div 2
             l   == TristimulusOf(spectrum, lo, mid)
             r   == TristimulusOf(spectrum, mid + 1, hi)
         IN  <<l[1] + r[1], l[2] + r[2], l[3] + r[3]>>

Tristimulus(spectrum) == TristimulusOf(spectrum, 1, Len(spectrum))

\* a * b / n to the nearest integer, for a of either sign
SignedMulDiv(a, b, n) ==
    CHOOSE rounded \in {IF x < 0 THEN -RoundMulDiv(-x, b, n) ELSE RoundMulDiv(x, b, n) :
                            x \in {a}} : TRUE

\* the XYZ to sRGB matrix, each channel a fixed-point number
linearRGB(XYZ) ==
    <<SignedMulDiv(XYZ[1], 32406, 100000000) - SignedMulDiv(XYZ[2], 15372, 100000000)
          - SignedMulDiv(XYZ[3], 4986, 100000000),
      SignedMulDiv(XYZ[2], 18758, 100000000) - SignedMulDiv(XYZ[1], 9689, 100000000)
          + SignedMulDiv(XYZ[3], 415, 100000000),
      SignedMulDiv(XYZ[1], 557, 100000000) - SignedMulDiv(XYZ[2], 2040, 100000000)
          + SignedMulDiv(XYZ[3], 10570, 100000000)>>

\* mutant of rgbMax: the floor 0.0001 in place of 1
rgbMaxSmallFloor(rgb) == Max(Max(rgb[1], rgb[2]), Max(rgb[3], 1))

\* const max = Math.max(r, g, b, 1)
rgbMax(rgb) == Max(Max(rgb[1], rgb[2]), Max(rgb[3], Unit))

\* r = r / max; g = g / max; b = b / max
normalizedRGB(rgb) ==
    LET max == rgbMax(rgb)
    IN  <<SignedMulDiv(rgb[1], Unit, max),
          SignedMulDiv(rgb[2], Unit, max),
          SignedMulDiv(rgb[3], Unit, max)>>

\* -ln(target / 10^8) in units of 10^-4: the greatest xs below 2^i with
\* cur * e^(-xs / 10^4) >= target, binary digit by binary digit
RECURSIVE LnNegE8(_, _, _)
LnNegE8(target, i, cur) ==
    IF i = 0 THEN 0
    ELSE LET next == MulE8(cur, ExpTable[i])
         IN  IF next >= target
             THEN 2^(i - 1) + LnNegE8(target, i - 1, next)
             ELSE LnNegE8(target, i - 1, cur)

\* Math.pow(c, 1 / 2.4) for a fixed-point 0 < c <= 1: e^(ln(c) / 2.4)
pow24(c) ==
    LET xs == LnNegE8(c * 10000, Len(ExpTable), 100000000)
    IN  (ExpNegE8(RoundMulDiv(xs, 10, 24), 0) + 5000) \div 10000

\* c > 0.0031308 ? 1.055 * Math.pow(c, 1 / 2.4) - 0.055 : 12.92 * c
gammaCorrect(c) ==
    IF 10000 * c > 313080
    THEN RoundMulDiv(pow24(c), 1055, 1000) - 550
    ELSE RoundMulDiv(c, 1292, 100)

\* mutant of channel: negative channels not raised to 0
channelNoFloor(c) == SignedMulDiv(gammaCorrect(c), 255, Unit)

\* Math.round(gammaCorrect(Math.max(c, 0)) * 255)
channel(c) == RoundMulDiv(gammaCorrect(Max(c, 0)), 255, Unit)

\* R, G, B of the tristimulus values
displayRGB(XYZ) ==
    CHOOSE RGB \in {<<channel(rgb[1]), channel(rgb[2]), channel(rgb[3])>> :
                        rgb \in {normalizedRGB(linearRGB(XYZ))}} : TRUE

\* `rgb(${R},${G},${B})`
rgbString(R, G, B) ==
    "rgb(" \o ToString(R) \o "," \o ToString(G) \o "," \o ToString(B) \o ")"

\* hex is the colour string; x and y are the toFixed(4) strings read as
\* ten-thousandths (the black result carries the numbers 0 in their place).
calculateColorFromSpectrum(spectrum) ==
    CHOOSE color \in
        { LET sum == XYZ[1] + XYZ[2] + XYZ[3]
          IN  IF sum = 0
              THEN [hex |-> "#000000", x |-> 0, y |-> 0]
              ELSE LET RGB == displayRGB(XYZ)
                   IN  [hex |-> rgbString(RGB[1], RGB[2], RGB[3]),
                        x |-> SignedMulDiv(XYZ[1], 10000, sum),
                        y |-> SignedMulDiv(XYZ[2], 10000, sum)]
          : XYZ \in {Tristimulus(spectrum)} } : TRUE

(***************************************************************************)
(* utils/physics.js: calculateCRI.                                         *)
(***************************************************************************)
\* mutant of criContribution: 600 counted as red and 510 as green
criContributionInclusive(p) ==
    IF p.wl >= 600 THEN <<p.intensity, p.intensity, 0, 0>>
    ELSE IF p.wl >= 510 THEN <<p.intensity, 0, p.intensity, 0>>
    ELSE <<p.intensity, 0, 0, p.intensity>>

\* what one sample adds to <<total, r, g, b>>:
\* total += p.intensity; if (p.wl > 600) r += ...; else if (p.wl > 510) g += ...;
\* else b += ...
criContribution(p) ==
    IF p.wl > 600 THEN <<p.intensity, p.intensity, 0, 0>>
    ELSE IF p.wl > 510 THEN <<p.intensity, 0, p.intensity, 0>>
    ELSE <<p.intensity, 0, 0, p.intensity>>

\* spectrum.forEach(...): the sums of the contributions of samples lo .. hi
\* (integer sums, taken by halves)
RECURSIVE BandsOf(_, _, _)
BandsOf(spectrum, lo, hi) ==
    IF lo > hi THEN <<0, 0, 0, 0>>
    ELSE IF lo = hi THEN criContribution(spectrum[lo])
    ELSE LET mid == (lo + hi) \div 2
             l   == BandsOf(spectrum, lo, mid)
             r   == BandsOf(spectrum, mid + 1, hi)
         IN  <<l[1] + r[1], l[2] + r[2], l[3] + r[3], l[4] + r[4]>>

\* Math.min of two fractions
RMin(x, y) == IF RSub(x, y)[1] <= 0 THEN x ELSE y

\* mutant of balance: total / 3 in place of total / 3.5
balanceThirds(total, r, g, b) ==
    RDiv(RMin(RMin(Rat(r, 1), Rat(g, 1)), RMul(Rat(b, 1), Rat(15, 10))),
         RDiv(Rat(total, 1), Rat(3, 1)))

\* Math.min(r, g, b * 1.5) / (total / 3.5)
balance(total, r, g, b) ==
    RDiv(RMin(RMin(Rat(r, 1), Rat(g, 1)), RMul(Rat(b, 1), Rat(15, 10))),
         RDiv(Rat(total, 1), Rat(35, 10)))

\* Math.round of a fraction: the nearest integer, halves going up
mathRound(x) == RoundHalfUp(MulDivMod(x[1], 1, x[2]), x[2])

\* mutant of calculateCRI: the cap at 98 left out
calculateCRINoCap(spectrum) ==
    LET t == BandsOf(spectrum, 1, Len(spectrum))
    IN  IF t[1] = 0 THEN 0
        ELSE mathRound(RAdd(Rat(60, 1), RMul(balance(t[1], t[2], t[3], t[4]), Rat(40, 1))))

calculateCRI(spectrum) ==
    LET t == BandsOf(spectrum, 1, Len(spectrum))
    IN  IF t[1] = 0 THEN 0
        ELSE Min(mathRound(RAdd(Rat(60, 1),
                                RMul(balance(t[1], t[2], t[3], t[4]), Rat(40, 1)))),
                 98)

(***************************************************************************)
(* utils/physics.js: getLatticeStructure.                                  *)
(* u and v are in quarters, w in eighths; positions are in 1/80, where     *)
(* every coordinate the code computes is a whole number: a step of 1/4 in  *)
(* u or v is 0.375 = 30/80, a step of 1/8 in w is 0.3375 = 27/80.          *)
(***************************************************************************)
ATOM_DEFS ==
    [Ag |-> [radius |-> 15, color |-> "#C0C0C0", label |-> "Silver"],
     Ga |-> [radius |-> 12, color |-> "#DAA520", label |-> "Gallium"],
     S  |-> [radius |-> 8,  color |-> "#FFFF00", label |-> "Sulfur"],
     Zr |-> [radius |-> 12, color |-> "#3b82f6", label |-> "Zirconium"]]

basis ==
    << [u |-> 0, v |-> 0, w |-> 0, type |-> "Ag"],
       [u |-> 0, v |-> 2, w |-> 2, type |-> "Ag"],
       [u |-> 2, v |-> 2, w |-> 4, type |-> "Ag"],
       [u |-> 2, v |-> 0, w |-> 6, type |-> "Ag"],
       [u |-> 0, v |-> 0, w |-> 4, type |-> "Ga"],
       [u |-> 0, v |-> 2, w |-> 6, type |-> "Ga"],
       [u |-> 2, v |-> 2, w |-> 0, type |-> "Ga"],
       [u |-> 2, v |-> 0, w |-> 2, type |-> "Ga"],
       [u |-> 1, v |-> 1, w |-> 1, type |-> "S"],
       [u |-> 3, v |-> 1, w |-> 7, type |-> "S"],
       [u |-> 1, v |-> 3, w |-> 1, type |-> "S"],
       [u |-> 3, v |-> 3, w |-> 7, type |-> "S"],
       [u |-> 3, v |-> 3, w |-> 5, type |-> "S"],
       [u |-> 1, v |-> 3, w |-> 3, type |-> "S"],
       [u |-> 3, v |-> 1, w |-> 5, type |-> "S"],
       [u |-> 1, v |-> 1, w |-> 3, type |-> "S"] >>

\* rangeX = rangeY = rangeZ: 2 in 'cluster' mode, 1 otherwise
range(mode) == IF mode = "cluster" THEN 2 ELSE 1

\* mutant of dopingProb: 0.10 in place of 0.15, the "about 10%" of the comment
\* above it
dopingProbTenth(zrConc) ==
    LET p == RMul(RDiv(Rat(zrConc, 100), Rat(3, 10)), Rat(10, 100))
    IN  IF p[1] >= p[2] THEN Rat(1, 1) ELSE p

\* Math.min(zrConc / 0.3 * 0.15, 1.0), zrConc in hundredths
dopingProb(zrConc) ==
    LET p == RMul(RDiv(Rat(zrConc, 100), Rat(3, 10)), Rat(15, 100))
    IN  IF p[1] >= p[2] THEN Rat(1, 1) ELSE p

\* the sites in the order of the loops x, y, z, basis.forEach: site n is the
\* basis atom b of the cell (x, y, z)
siteOf(mode, n) ==
    LET r == range(mode)
        c == (n - 1) \div Len(basis)
        b == basis[((n - 1) % Len(basis)) + 1]
        x == c \div (r * r)
        y == (c \div r) % r
        z == c % r
    IN  [pos  |-> <<30 * b.u + 120 * x - 60 * r,
                   30 * b.v + 120 * y - 60 * r,
                   27 * b.w + 216 * z - 108 * r>>,
         type |-> b.type]

siteCount(mode) == range(mode) * range(mode) * range(mode) * Len(basis)

\* x*x + y*y + z*z of a vector in 1/80: the square of its length in 1/6400
squaredLength(d) == d[1] * d[1] + d[2] * d[2] + d[3] * d[3]

\* if (mode === 'cluster') { if (dist > 2.2) return; }: 2.2 is 176/80
clipped(mode, pos) == mode = "cluster" /\ squaredLength(pos) > 176 * 176

\* the Ga sites that are not clipped: the sites where Math.random is drawn
gaSites(mode) ==
    {n \in 1..siteCount(mode) :
        siteOf(mode, n).type = "Ga" /\ ~clipped(mode, siteOf(mode, n).pos)}

\* atoms.push({pos, type: finalType, ...ATOM_DEFS[finalType]}) for every site
\* that is not clipped; zr is the set of sites where Math.random() < dopingProb
latticeAtoms(mode, zr) ==
    LET kept(n) == ~clipped(mode, siteOf(mode, n).pos)
        ns == SelectSeq([n \in 1..siteCount(mode) |-> n], kept)
    IN  [k \in DOMAIN ns |->
            LET site == siteOf(mode, ns[k])
                finalType == IF site.type = "Ga" /\ ns[k] \in zr THEN "Zr" ELSE site.type
            IN  [pos    |-> site.pos,
                 type   |-> finalType,
                 radius |-> ATOM_DEFS[finalType].radius,
                 color  |-> ATOM_DEFS[finalType].color,
                 label  |-> ATOM_DEFS[finalType].label]]

\* mutant of bondThreshold: 0.6, the value of the comment above it
bondThresholdTight == 6 * 8

\* const bondThreshold = 0.8, which is 64/80
bondThreshold == 64

\* dist < bondThreshold
withinThreshold(pos1, pos2) ==
    squaredLength(<<pos1[1] - pos2[1], pos1[2] - pos2[2], pos1[3] - pos2[3]>>)
        < bondThreshold * bondThreshold

\* the inner callback pushes a bond for atom1 = atoms[i], atom2 = atoms[j]
bonded(atoms, i, j) ==
    /\ atoms[i].type = "S"
    /\ i # j
    /\ atoms[j].type # "S"
    /\ withinThreshold(atoms[i].pos, atoms[j].pos)

\* atoms.forEach((atom1, i) => atoms.forEach((atom2, j) => ...)): the bonds
\* in the order i, j of the two loops
latticeBonds(atoms) ==
    LET n == Len(atoms)
        pair(k) == <<((k - 1) \div n) + 1, ((k - 1) % n) + 1>>
        isBond(k) == bonded(atoms, pair(k)[1], pair(k)[2])
        ks == SelectSeq([k \in 1..(n * n) |-> k], isBond)
    IN  [m \in DOMAIN ks |->
            [start |-> atoms[pair(ks[m])[1]].pos,
             end   |-> atoms[pair(ks[m])[2]].pos,
             color |-> "#555"]]

\* getLatticeStructure(mode, zrConc) when Math.random() < dopingProb came out
\* true at the Ga sites zr and false at the others
getLatticeStructure(mode, zr) ==
    LET atoms == latticeAtoms(mode, zr)
    IN  [atoms |-> atoms, bonds |-> latticeBonds(atoms)]

(***************************************************************************)
(* App: the mixed spectrum of the useMemo pipeline.                        *)
(***************************************************************************)
\* mutant of qdIntensityFactor: a damping of 3 per mmol
qdIntensityFactorSteep(zrDoping) == Max(2000, Unit - 3 * zrDoping * (Unit \div 100))

\* Math.max(0.2, 1 - zrDoping * 2)
qdIntensityFactor(zrDoping) == Max(2000, Unit - 2 * zrDoping * (Unit \div 100))

\* mutant of mixedSpectrum: the excitation read one sample further on
mixedSpectrumShifted(qdSpec, blue, zrDoping) ==
    [i \in 1..Len(qdSpec) |->
        [wl |-> qdSpec[i].wl,
         intensity |-> FMul(qdSpec[i].intensity, qdIntensityFactor(zrDoping))
                       + (IF i + 1 \in DOMAIN blue
                          THEN FMul(blue[i + 1].intensity, 4000) ELSE 0)]]

\* qdSpec.map((p, i) => ({wl: p.wl, intensity: p.intensity * qdIntensityFactor
\*                          + (blue[i] ? blue[i].intensity * 0.4 : 0)}))
mixedSpectrum(qdSpec, blue, zrDoping) ==
    [i \in 1..Len(qdSpec) |->
        [wl |-> qdSpec[i].wl,
         intensity |-> FMul(qdSpec[i].intensity, qdIntensityFactor(zrDoping))
                       + (IF i \in DOMAIN blue THEN FMul(blue[i].intensity, 4000) ELSE 0)]]

\* mutant of pipeline: the colour taken from the mixed spectrum
pipelineColorOfMixed(radius, fwhm, reactionTime, zrDoping, isCoreShell) ==
    CHOOSE out \in
        UNION { UNION { { [spectrum    |-> mixed,
                           centerWl    |-> em.wl,
                           energy      |-> em.energy,
                           sphereColor |-> calculateColorFromSpectrum(mixed).hex,
                           criScore    |-> calculateCRI(mixed)]
                          : mixed \in {mixedSpectrum(qdSpec, getBlueLEDSpectrum, zrDoping)} }
                        : qdSpec \in {generateCompositeSpectrum(em.wl, fwhm, zrDoping)} }
                : em \in {calculateEmissionParams(radius, reactionTime, isCoreShell)} } : TRUE

\* the body of useMemo(() => { ... }, [radius, fwhm, reactionTime, zrDoping,
\* isCoreShell]); each const (em, qdSpec, mixed) is bound to its value once
pipeline(radius, fwhm, reactionTime, zrDoping, isCoreShell) ==
    CHOOSE out \in
        UNION { UNION { { [spectrum    |-> mixed,
                           centerWl    |-> em.wl,
                           energy      |-> em.energy,
                           sphereColor |-> calculateColorFromSpectrum(qdSpec).hex,
                           criScore    |-> calculateCRI(mixed)]
                          : mixed \in {mixedSpectrum(qdSpec, getBlueLEDSpectrum, zrDoping)} }
                        : qdSpec \in {generateCompositeSpectrum(em.wl, fwhm, zrDoping)} }
                : em \in {calculateEmissionParams(radius, reactionTime, isCoreShell)} } : TRUE

(***************************************************************************)
(* Callers of calculateEmissionParams: a first call with any arguments,    *)
(* then a second call with the same radius and any reaction time and shell *)
(* flag.  emArgs / emRet hold the latest call, emPrevArgs / emPrevRet the  *)
(* one before it.                                                          *)
(***************************************************************************)
EmArgs == [radius : Radii, reactionTime : Times, isCoreShell : BOOLEAN]

EmIdle ==
    /\ emArgs = NoCall
    /\ emRet = NoCall
    /\ emPrevArgs = NoCall
    /\ emPrevRet = NoCall

SpIdle ==
    /\ spArgs = NoCall
    /\ spRet = NoCall

ColIdle ==
    /\ colArgs = NoCall
    /\ colRet = NoCall
    /\ criRet = NoCall

PipeIdle ==
    /\ pipeArgs = NoCall
    /\ pipeRet = NoCall
    /\ pipeRet2 = NoCall

LatIdle ==
    /\ latArgs = NoCall
    /\ latRet = NoCall

AppIdle ==
    /\ app = NoCall
    /\ memo = NoCall
    /\ scene = NoCall

InitEmission == EmIdle /\ SpIdle /\ ColIdle /\ PipeIdle /\ LatIdle /\ AppIdle

EmFirstCall ==
    /\ emArgs = NoCall
    /\ \E a \in EmArgs :
         /\ emArgs' = a
         /\ emRet' = calculateEmissionParams(a.radius, a.reactionTime, a.isCoreShell)
    /\ UNCHANGED <<emPrevArgs, emPrevRet, spVars, colVars, pipeVars, latVars, appVars>>

EmSecondCall ==
    /\ emArgs # NoCall
    /\ emPrevArgs = NoCall
    /\ \E t \in Times, s \in BOOLEAN :
         /\ emArgs' = [radius |-> emArgs.radius, reactionTime |-> t, isCoreShell |-> s]
         /\ emRet' = calculateEmissionParams(emArgs.radius, t, s)
    /\ emPrevArgs' = emArgs
    /\ emPrevRet' = emRet
    /\ UNCHANGED <<spVars, colVars, pipeVars, latVars, appVars>>

NextEmission == EmFirstCall \/ EmSecondCall

SpecEmission == InitEmission /\ [][NextEmission]_vars


(***************************************************************************)
(* Callers of the spectrum generators: one call with any centre, width and *)
(* dopant concentration, drawn at the start.  The call records the weights *)
(* the composite builder computed, the spectra of                          *)
(* generateGaussianSpectrum, generateCompositeSpectrum and                 *)
(* getBlueLEDSpectrum, and the pipeline's mix of the last two.             *)
(***************************************************************************)
SpArgs == [baseWl : BaseWls, fwhm : Fwhms, zrConc : ZrConcs]

Spectra(baseWl, fwhm, zrConc) ==
    LET qdSpec == generateCompositeSpectrum(baseWl, fwhm, zrConc)
        blue   == getBlueLEDSpectrum
    IN  [baseWeight |-> baseWeight(zrConc),
         zrWeight   |-> zrWeight(zrConc),
         gaussian   |-> generateGaussianSpectrum(baseWl, fwhm),
         composite  |-> qdSpec,
         blue       |-> blue,
         mixed      |-> mixedSpectrum(qdSpec, blue, zrConc)]

InitSpectrum ==
    /\ EmIdle
    /\ spArgs \in SpArgs
    /\ spRet = NoCall
    /\ ColIdle
    /\ PipeIdle
    /\ LatIdle
    /\ AppIdle

SpCall ==
    /\ spRet = NoCall
    /\ spRet' = Spectra(spArgs.baseWl, spArgs.fwhm, spArgs.zrConc)
    /\ UNCHANGED <<spArgs, emVars, colVars, pipeVars, latVars, appVars>>

NextSpectrum == SpCall

SpecSpectrum == InitSpectrum /\ [][NextSpectrum]_vars

(***************************************************************************)
(* Callers of calculateColorFromSpectrum and calculateCRI: one call of     *)
(* each on a spectrum over the 81-point grid, drawn at the start: a flat   *)
(* background below 735 nm, one spike anywhere on the grid, and a common   *)
(* level for the samples at 735 nm and above; or the same level at all 81  *)
(* points.                                                                 *)
(***************************************************************************)
Flats == {0, MaxFlat}
Amps == {0, 1, 10 * MaxFlat, Unit \div 2, Unit}

TestSpectrum(flat, spike, amp, tail) ==
    [i \in DOMAIN Grid |->
        [wl |-> Grid[i],
         intensity |-> (IF Grid[i] >= 735 THEN tail ELSE flat)
                       + (IF i = spike THEN amp ELSE 0)]]

FlatSpectrum(c) == [i \in DOMAIN Grid |-> [wl |-> Grid[i], intensity |-> c]]

ColArgs ==
    {TestSpectrum(flat, spike, amp, tail) :
        flat \in Flats, spike \in DOMAIN Grid, amp \in Amps, tail \in Amps}
    \cup {FlatSpectrum(c) : c \in 1..MaxFlat}

InitColor ==
    /\ EmIdle
    /\ SpIdle
    /\ colArgs \in ColArgs
    /\ colRet = NoCall
    /\ criRet = NoCall
    /\ PipeIdle
    /\ LatIdle
    /\ AppIdle

ColCall ==
    /\ colRet = NoCall
    /\ colRet' = calculateColorFromSpectrum(colArgs)
    /\ UNCHANGED <<colArgs, criRet, emVars, spVars, pipeVars, latVars, appVars>>

CriCall ==
    /\ criRet = NoCall
    /\ criRet' = [cri |-> calculateCRI(colArgs)]
    /\ UNCHANGED <<colArgs, colRet, emVars, spVars, pipeVars, latVars, appVars>>

NextColor == ColCall \/ CriCall

SpecColor == InitColor /\ [][NextColor]_vars

(***************************************************************************)
(* Callers of the pipeline: two runs on the same inputs, drawn at the      *)
(* start; the width is the App's 35 nm.                                    *)
(***************************************************************************)
DefaultFwhm == 35

\* the radius the App passes: useState(3.5)
DefaultRadius == 35

PipeArgs ==
    [radius       : {20 + 10 * i : i \in 0..MaxPipeRadiusIdx} \cup {DefaultRadius},
     fwhm         : {DefaultFwhm},
     reactionTime : {30 + 10 * j : j \in 0..MaxPipeTimeIdx},
     zrDoping     : {5 * k : k \in 0..MaxPipeZrIdx},
     isCoreShell  : BOOLEAN]

InitPipeline ==
    /\ EmIdle
    /\ SpIdle
    /\ ColIdle
    /\ pipeArgs \in PipeArgs
    /\ pipeRet = NoCall
    /\ pipeRet2 = NoCall
    /\ LatIdle
    /\ AppIdle

PipeRun ==
    /\ pipeRet = NoCall
    /\ pipeRet' = pipeline(pipeArgs.radius, pipeArgs.fwhm, pipeArgs.reactionTime,
                           pipeArgs.zrDoping, pipeArgs.isCoreShell)
    /\ UNCHANGED <<pipeArgs, pipeRet2, emVars, spVars, colVars, latVars, appVars>>

PipeRerun ==
    /\ pipeRet # NoCall
    /\ pipeRet2 = NoCall
    /\ pipeRet2' = pipeline(pipeArgs.radius, pipeArgs.fwhm, pipeArgs.reactionTime,
                            pipeArgs.zrDoping, pipeArgs.isCoreShell)
    /\ UNCHANGED <<pipeArgs, pipeRet, emVars, spVars, colVars, latVars, appVars>>

NextPipeline == PipeRun \/ PipeRerun

SpecPipeline == InitPipeline /\ [][NextPipeline]_vars

(***************************************************************************)
(* Callers of getLatticeStructure: one call with either mode and a dopant  *)
(* concentration, drawn at the start.  Math.random() < dopingProb can come *)
(* out true at any Ga site when dopingProb > 0, at none when it is 0, and  *)
(* at all when it is 1.                                                    *)
(***************************************************************************)
\* a concentration of 2.5 mmol, where zrConc / 0.3 * 0.15 exceeds 1
SaturatingConcs == {250}

LatArgs ==
    [mode   : {"unit", "cluster"},
     zrConc : {15 * k : k \in 0..MaxLatZrIdx} \cup SaturatingConcs]

\* the sets of Ga sites where the draw can come out below dopingProb
Outcomes(mode, zrConc) ==
    LET p == dopingProb(zrConc)
    IN  IF p[1] = 0 THEN {{}}
        ELSE IF p[1] >= p[2] THEN {gaSites(mode)}
        ELSE {zr \in SUBSET gaSites(mode) : Cardinality(zr) <= MaxSubstituted}

InitLattice ==
    /\ EmIdle
    /\ SpIdle
    /\ ColIdle
    /\ PipeIdle
    /\ AppIdle
    /\ latArgs \in LatArgs
    /\ latRet = NoCall

LatCall ==
    /\ latRet = NoCall
    /\ \E zr \in Outcomes(latArgs.mode, latArgs.zrConc) :
         latRet' = getLatticeStructure(latArgs.mode, zr)
    /\ UNCHANGED <<latArgs, emVars, spVars, colVars, pipeVars, appVars>>

NextLattice == LatCall

SpecLattice == InitLattice /\ [][NextLattice]_vars

(***************************************************************************)
(* App.jsx: the component state, its event handlers and what a render      *)
(* computes from the state.  reactionTime is in minutes, zrDoping in       *)
(* hundredths of a mmol, radius in tenths of a nanometre.                  *)
(***************************************************************************)
\* the useState initial values
initialApp ==
    [viewMode       |-> "device",
     showComparison |-> TRUE,
     radius         |-> DefaultRadius,
     fwhm           |-> DefaultFwhm,
     reactionTime   |-> 30,
     zrDoping       |-> 0,
     isCoreShell    |-> TRUE]

\* mutant of reactionTimeSlider: a slider that starts at 0 minutes
reactionTimeSliderFromZero == [min |-> 0, max |-> 90, step |-> 5]

\* <input type="range" min="30" max="90" step="5">
reactionTimeSlider == [min |-> 30, max |-> 90, step |-> 5]

\* <input type="range" min="0" max="0.3" step="0.01">
zrDopingSlider == [min |-> 0, max |-> 30, step |-> 1]

\* parseFloat(e.target.value) of a range input at the given positions: a
\* value min + k * step that does not exceed max
sliderValues(slider, positions) ==
    {v \in {slider.min + k * slider.step : k \in positions} : v <= slider.max}

ReactionTimeValues == sliderValues(reactionTimeSlider, 0..MaxAppTimeIdx)

ZrDopingValues == sliderValues(zrDopingSlider, {5 * k : k \in 0..MaxAppZrIdx})

\* mutant of viewButtons: a fourth button that selects 'dot'
viewButtonsWithDot == {"device", "cluster", "unit", "dot"}

\* the buttons onClick={() => setViewMode('device' | 'cluster' | 'unit')}
viewButtons == {"device", "cluster", "unit"}

\* onClick={() => setIsCoreShell(!isCoreShell)}
setIsCoreShell(state) == [state EXCEPT !.isCoreShell = ~state.isCoreShell]

\* onChange={e => setReactionTime(parseFloat(e.target.value))}
setReactionTime(state, value) == [state EXCEPT !.reactionTime = value]

\* onChange={e => setZrDoping(parseFloat(e.target.value))}
setZrDoping(state, value) == [state EXCEPT !.zrDoping = value]

\* onClick={() => setShowComparison(!showComparison)}
setShowComparison(state) == [state EXCEPT !.showComparison = ~state.showComparison]

\* mutant of setViewMode: a view change that also resets the reaction time
setViewModeResetting(state, mode) ==
    [state EXCEPT !.viewMode = mode, !.reactionTime = 30]

\* onClick={() => setViewMode(mode)}
setViewMode(state, mode) == [state EXCEPT !.viewMode = mode]

\* the dependency list [radius, fwhm, reactionTime, zrDoping, isCoreShell]
memoDeps(state) ==
    [radius       |-> state.radius,
     fwhm         |-> state.fwhm,
     reactionTime |-> state.reactionTime,
     zrDoping     |-> state.zrDoping,
     isCoreShell  |-> state.isCoreShell]

\* the dependency lists the handlers can produce
MemoDeps ==
    [radius       : {DefaultRadius},
     fwhm         : {DefaultFwhm},
     reactionTime : ReactionTimeValues \cup {initialApp.reactionTime},
     zrDoping     : ZrDopingValues \cup {initialApp.zrDoping},
     isCoreShell  : BOOLEAN]

\* what the useMemo callback returns, for each dependency list
memoValues ==
    {[deps  |-> deps,
      value |-> pipeline(deps.radius, deps.fwhm, deps.reactionTime, deps.zrDoping,
                         deps.isCoreShell)] : deps \in MemoDeps}

\* useMemo(() => {...}, [radius, fwhm, reactionTime, zrDoping, isCoreShell]):
\* the callback runs when a dependency differs from the previous render's
useMemoPipeline(state, previous) ==
    IF previous # NoCall /\ previous.deps = memoDeps(state)
    THEN previous
    ELSE CHOOSE computed \in memoValues : computed.deps = memoDeps(state)

\* the component inside <Float> and, for CrystalStructure, the arguments of
\* its getLatticeStructure(mode, zrDoping)
renderScene(state) ==
    IF state.viewMode = "dot"
    THEN [component |-> "QuantumDotSphere", lattice |-> NoCall]
    ELSE IF state.viewMode = "device"
    THEN [component |-> "RemoteDeviceView", lattice |-> NoCall]
    ELSE [component |-> "CrystalStructure",
          lattice   |-> [mode |-> state.viewMode, zrConc |-> state.zrDoping]]

\* a state update followed by the render it causes
Render(state) ==
    /\ app' = state
    /\ memo' = useMemoPipeline(state, memo)
    /\ scene' = renderScene(state)
    /\ UNCHANGED <<emVars, spVars, colVars, pipeVars, latVars>>

InitApp ==
    /\ EmIdle
    /\ SpIdle
    /\ ColIdle
    /\ PipeIdle
    /\ LatIdle
    /\ app = initialApp
    /\ memo = useMemoPipeline(initialApp, NoCall)
    /\ scene = renderScene(initialApp)

ToggleCoreShell == Render(setIsCoreShell(app))

ChangeReactionTime == \E value \in ReactionTimeValues : Render(setReactionTime(app, value))

ChangeZrDoping == \E value \in ZrDopingValues : Render(setZrDoping(app, value))

ToggleComparison == Render(setShowComparison(app))

ClickView == \E mode \in viewButtons : Render(setViewMode(app, mode))

NextApp ==
    \/ ToggleCoreShell
    \/ ChangeReactionTime
    \/ ChangeZrDoping
    \/ ToggleComparison
    \/ ClickView

SpecApp == InitApp /\ [][NextApp]_vars

(***************************************************************************)
(* Claims about calculateEmissionParams (checked under SpecEmission).      *)
(***************************************************************************)
TwoCalls == emPrevArgs # NoCall

\* two calls without a shell at reaction times t1 <= t2 inside [30, 90]
TimeSweep ==
    /\ TwoCalls
    /\ ~emPrevArgs.isCoreShell
    /\ ~emArgs.isCoreShell
    /\ 30 <= emPrevArgs.reactionTime
    /\ emPrevArgs.reactionTime <= emArgs.reactionTime
    /\ emArgs.reactionTime <= 90

\* C1 as stated: for every radius and reaction times t1 <= t2 in [30,90] the
\* peak wavelength without a shell is non-decreasing, wl(t1) <= wl(t2).
C1_WlNonDecreasing == TimeSweep => emPrevRet.wl <= emRet.wl

\* C1 amended: for every radius and reaction times t1 <= t2 in [30,90] the
\* peak wavelength without a shell is non-increasing, wl(t1) >= wl(t2): a
\* longer reaction shifts the peak to the blue.
C1_WlNonIncreasing == TimeSweep => emPrevRet.wl >= emRet.wl

C1_Witness ==
    /\ TimeSweep
    /\ emPrevArgs.reactionTime < emArgs.reactionTime
    /\ emPrevRet.wl > emRet.wl

\* a wavelength in tenths of a nanometre, to the nearest nanometre
NearestNm(wl) == (wl + 5) \div 10

\* C2: at the default radius 3.5 nm without a shell the peak is 570 nm at
\* reactionTime 30 and 520 nm at reactionTime 90 (to the nearest nm).
C2_ReadmeBlueShift ==
    (/\ emArgs # NoCall
     /\ emArgs.radius = DefaultRadius
     /\ ~emArgs.isCoreShell)
    => /\ emArgs.reactionTime = 30 => NearestNm(emRet.wl) = 570
       /\ emArgs.reactionTime = 90 => NearestNm(emRet.wl) = 520

\* the same radius at reactionTime 30, first without and then with the shell
ShellPair ==
    /\ TwoCalls
    /\ emPrevArgs.reactionTime = 30
    /\ emArgs.reactionTime = 30
    /\ ~emPrevArgs.isCoreShell
    /\ emArgs.isCoreShell

\* C3: for every radius the 3-decimal energy returned with the shell at
\* reactionTime 30 is exactly 0.09 eV (90 thousandths) below the energy
\* returned without it.
C3_ShellLowersEnergy == ShellPair => emPrevRet.energy - emRet.energy = 90

C3_Witness == ShellPair /\ emPrevRet.energy - emRet.energy = 90

\* C4: for every radius > 0, every reactionTime and either shell flag the
\* returned wl lies in [400, 700] nm.
C4_WlClamped == emRet # NoCall => (4000 <= emRet.wl /\ emRet.wl <= 7000)

\* the lower clamp acted: 1240 / E is below 400, and 400 is returned
C4_Witness ==
    /\ emArgs # NoCall
    /\ LET E == emissionEnergy(emArgs.radius, emArgs.reactionTime, emArgs.isCoreShell)
       IN  31 * E[2] < 10 * E[1]
    /\ emRet.wl = 4000

\* The reference formula over the common denominator 6000 * radius^2
\* (radius in tenths of a nanometre):
\*   E = 2.73 + 0.8/r^2 - 0.3/r - (0.65 + 0.1/r)
\*       + (t - 30) * 0.17/60 if t > 30  - 0.09 if s.
RefDen(radius) == 6000 * radius * radius

RefNum(radius, t, s) ==
    12480 * radius * radius - 24000 * radius + 480000
    + (IF t > 30 THEN 17 * (t - 30) * radius * radius ELSE 0)
    - (IF s THEN 540 * radius * radius ELSE 0)

RefEnergy(radius, t, s) ==
    RoundHalfUp(MulDivMod(RefNum(radius, t, s), 1000, RefDen(radius)), RefDen(radius))

RefWl(radius, t, s) ==
    LET qr == MulDivMod(RefDen(radius), 12400, RefNum(radius, t, s))
    IN  IF qr[1] < 4000 THEN 4000
        ELSE IF qr[1] > 7000 \/ (qr[1] = 7000 /\ qr[2] > 0) THEN 7000
        ELSE RoundHalfUp(qr, RefNum(radius, t, s))

\* C5: every call returns the reference formula's energy to 3 decimals and
\* clamp(1240/E, 400, 700) to 1 decimal, computed from the unrounded E, with
\* the linear ramp added only for t > 30 and 0.09 subtracted only with the
\* shell; (3.5, 30, false) yields energy 2.031 and wl 610.5.
C5_ReferenceFormula ==
    emArgs # NoCall =>
        /\ emRet.energy = RefEnergy(emArgs.radius, emArgs.reactionTime, emArgs.isCoreShell)
        /\ emRet.wl = RefWl(emArgs.radius, emArgs.reactionTime, emArgs.isCoreShell)
        /\ (/\ emArgs.radius = DefaultRadius
            /\ emArgs.reactionTime = 30
            /\ ~emArgs.isCoreShell)
           => (emRet.energy = 2031 /\ emRet.wl = 6105)

C5_Witness ==
    /\ emArgs # NoCall
    /\ emArgs.radius = DefaultRadius
    /\ emArgs.reactionTime = 30
    /\ ~emArgs.isCoreShell
    /\ emRet = [energy |-> 2031, wl |-> 6105]


(***************************************************************************)
(* Claims about the spectrum generators (checked under SpecSpectrum).      *)
(***************************************************************************)
SpDone == spRet # NoCall

\* C6: with zrConc = 0 the composite spectrum is pointwise identical to
\* generateGaussianSpectrum(baseWl, fwhm): the same wavelengths and the same
\* intensity at each.
C6_ZeroDopingIsGaussian ==
    (SpDone /\ spArgs.zrConc = 0) => spRet.composite = spRet.gaussian

C6_Witness ==
    /\ SpDone
    /\ spArgs.zrConc = 0
    /\ spRet.composite = spRet.gaussian
    /\ \E i \in DOMAIN spRet.composite :
         /\ spRet.composite[i].intensity > 0
         /\ spRet.composite[i].intensity < Unit

\* C7: with zrConc = 0.3 the host weight is 0 and the dopant weight 1.5, the
\* sample at 470 nm has intensity exactly 1.5, and the spectrum is 1.5 times
\* the dopant Gaussian whatever baseWl and fwhm are.
C7_FullDoping ==
    (SpDone /\ spArgs.zrConc = maxConc) =>
        /\ spRet.baseWeight = 0
        /\ spRet.zrWeight = 15000
        /\ \E i \in DOMAIN spRet.composite : spRet.composite[i].wl = zrPeakWl
        /\ \A i \in DOMAIN spRet.composite :
             /\ spRet.composite[i].wl = zrPeakWl =>
                    spRet.composite[i].intensity = 15000
             /\ spRet.composite[i].intensity =
                    FMul(15000, Gaussian(spRet.composite[i].wl, 10 * zrPeakWl, zrPeakFwhm))

\* full doping with a host peak that would otherwise show at 595 nm
C7_Witness ==
    /\ SpDone
    /\ spArgs.zrConc = maxConc
    /\ spArgs.baseWl = 5950
    /\ spRet.gaussian[44].intensity = Unit
    /\ spRet.composite[44].intensity = 0
    /\ spRet.composite[19] = [wl |-> 470, intensity |-> 15000]

\* C8: the host weight is in [0, 1] and does not rise, the dopant weight is
\* in [0, 1.5] and does not fall, as zrConc rises; from zrConc = 0.3 upwards
\* the spectrum is the one of zrConc = 0.3.
C8_WeightsMonotone ==
    SpDone =>
        /\ 0 <= spRet.baseWeight /\ spRet.baseWeight <= Unit
        /\ 0 <= spRet.zrWeight /\ spRet.zrWeight <= 15000
        /\ \A z \in ZrConcs :
             z >= spArgs.zrConc =>
                 /\ baseWeight(z) <= spRet.baseWeight
                 /\ zrWeight(z) >= spRet.zrWeight
        /\ spArgs.zrConc >= maxConc =>
               spRet.composite =
                   generateCompositeSpectrum(spArgs.baseWl, spArgs.fwhm, maxConc)

\* a concentration above 0.3 mmol, saturated
C8_Witness ==
    /\ SpDone
    /\ spArgs.zrConc > maxConc
    /\ spRet.baseWeight = 0
    /\ spRet.zrWeight = 15000

\* 81 samples at 380, 385, ..., 780 in this order, none below 0
WellFormed(spectrum) ==
    /\ Len(spectrum) = 81
    /\ \A i \in 1..81 :
         /\ spectrum[i].wl = 375 + 5 * i
         /\ spectrum[i].intensity >= 0

\* C9: the spectra of generateGaussianSpectrum, getBlueLEDSpectrum,
\* generateCompositeSpectrum (zrConc in [0, 0.3]) and the pipeline's mixed
\* spectrum have exactly 81 samples, at 380, 385, ..., 780 ascending, and no
\* negative intensity.
C9_SpectraWellFormed ==
    (SpDone /\ spArgs.zrConc <= maxConc) =>
        /\ WellFormed(spRet.gaussian)
        /\ WellFormed(spRet.blue)
        /\ WellFormed(spRet.composite)
        /\ WellFormed(spRet.mixed)

\* a partly doped call whose mixed spectrum shows both the dopant and the LED
C9_Witness ==
    /\ SpDone
    /\ spArgs.zrConc > 0
    /\ spArgs.zrConc < maxConc
    /\ WellFormed(spRet.mixed)
    /\ spRet.mixed[81].wl = 780
    /\ \E i \in 1..81 : spRet.mixed[i].intensity > spRet.composite[i].intensity

(***************************************************************************)
(* Claims about calculateColorFromSpectrum (checked under SpecColor).      *)
(***************************************************************************)
ColDone == colRet # NoCall

Black == [hex |-> "#000000", x |-> 0, y |-> 0]

\* the tristimulus sum X + Y + Z of the spectrum handed to the call
TristimulusSum ==
    LET XYZ == Tristimulus(colArgs)
    IN  XYZ[1] + XYZ[2] + XYZ[3]

\* every non-zero sample of the spectrum lies at 735 nm or above
OnlyTailNonZero ==
    \A i \in DOMAIN colArgs : colArgs[i].intensity # 0 => colArgs[i].wl >= 735

\* C10: calculateColorFromSpectrum returns the black result (hex #000000,
\* x = 0, y = 0) exactly when the tristimulus sum X + Y + Z is 0, which for
\* the non-negative spectra of the grid is exactly when every non-zero sample
\* lies at 735..780 nm (the all-zero spectrum included); every other
\* spectrum gets an rgb(...) colour and the quotients X / sum and Y / sum, so
\* no quotient by a zero sum is ever formed.
C10_BlackIffZeroSum ==
    ColDone =>
        /\ (colRet = Black) <=> (TristimulusSum = 0)
        /\ (colRet = Black) <=> OnlyTailNonZero
        /\ colRet # Black =>
              /\ colRet.hex # "#000000"
              /\ colRet.x \in 0..10000
              /\ colRet.y \in 0..10000

\* a spectrum that is non-zero at 735 nm and above only has been given the
\* black result
C10_Witness ==
    /\ ColDone
    /\ colRet = Black
    /\ OnlyTailNonZero
    /\ colArgs[72] = [wl |-> 735, intensity |-> Unit]
    /\ colArgs[81].intensity = Unit

\* the multiple of 10 nearest to wl, the larger one of two equally near
NearestTen(wl) ==
    CHOOSE m \in {10 * k : k \in 0..100} :
        /\ 2 * Abs(wl - m) <= 10
        /\ \A n \in {10 * k : k \in 0..100} : 2 * Abs(wl - n) <= 10 => n <= m

\* the 36 table keys 380, 390, ..., 730
TableKeys == {380 + 10 * k : k \in 0..35}

\* the spectrum with the intensities at 735 nm and above put to 0
ZeroTail(spectrum) ==
    [i \in DOMAIN spectrum |->
        [wl |-> spectrum[i].wl,
         intensity |-> IF spectrum[i].wl >= 735 THEN 0 ELSE spectrum[i].intensity]]

\* C11: each sample is looked up at the multiple of 10 nearest to its
\* wavelength (a wavelength ending in 5 goes up) and adds intensity * entry
\* if that is one of the 36 keys 380..730, and nothing otherwise; so the
\* result is the one of the same spectrum with zeros at 735..780.
C11_LookupAndTail ==
    /\ DOMAIN CMF = TableKeys
    /\ Cardinality(DOMAIN CMF) = 36
    /\ ColDone =>
          /\ \A i \in DOMAIN colArgs :
                LET p == colArgs[i]
                    k == NearestTen(p.wl)
                IN  /\ roundedWl(p.wl) = k
                    /\ contribution(p) =
                          IF k \in TableKeys
                          THEN <<p.intensity * CMF[k][1], p.intensity * CMF[k][2],
                                 p.intensity * CMF[k][3]>>
                          ELSE <<0, 0, 0>>
          /\ colRet = calculateColorFromSpectrum(ZeroTail(colArgs))

\* a coloured result of a spectrum with light at 385 nm, which counts at 390,
\* and at 735 nm and above, which does not count
C11_Witness ==
    /\ ColDone
    /\ colRet # Black
    /\ colArgs[2] = [wl |-> 385, intensity |-> Unit]
    /\ roundedWl(colArgs[2].wl) = 390
    /\ colArgs[72] = [wl |-> 735, intensity |-> Unit \div 2]
    /\ colArgs # ZeroTail(colArgs)

\* R, G, B of the spectrum handed to the call
ArgRGB == displayRGB(Tristimulus(colArgs))

\* C12 as stated: every spectrum gets a string rgb(R,G,B) with R, G, B in
\* 0..255 and a chromaticity pair.
C12_AlwaysRgbString ==
    ColDone =>
        /\ colRet.hex = rgbString(ArgRGB[1], ArgRGB[2], ArgRGB[3])
        /\ \A c \in 1..3 : ArgRGB[c] \in 0..255
        /\ colRet.x \in 0..10000
        /\ colRet.y \in 0..10000

\* C12: every spectrum with a non-zero tristimulus sum gets the string
\* rgb(R,G,B) with R, G, B integers in 0..255 and a chromaticity pair within
\* [0, 1]; a spectrum with a zero sum gets the string #000000 and the pair
\* (0, 0).
C12_RgbStringUnlessBlack ==
    ColDone =>
        IF TristimulusSum = 0
        THEN colRet = Black
        ELSE /\ colRet.hex = rgbString(ArgRGB[1], ArgRGB[2], ArgRGB[3])
             /\ \A c \in 1..3 : ArgRGB[c] \in 0..255
             /\ colRet.x \in 0..10000
             /\ colRet.y \in 0..10000

\* light at 525 nm only: the red and blue channels are negative before the
\* floor at 0
C12_Witness ==
    /\ ColDone
    /\ colArgs[30] = [wl |-> 525, intensity |-> Unit \div 2]
    /\ linearRGB(Tristimulus(colArgs))[1] < 0
    /\ colRet = [hex |-> "rgb(0,222,0)", x |-> 1547, y |-> 8058]

\* the linear channels of the spectrum handed to the call, before and after
\* the division by max
ArgLinear == linearRGB(Tristimulus(colArgs))
ArgNormalized == normalizedRGB(ArgLinear)

\* C13: the divisor max(r, g, b, 1) is at least 1; after the division no
\* channel is above 1 and none is larger in size than before; channels that
\* were all at most 1 are unchanged.
C13_Normalisation ==
    (ColDone /\ TristimulusSum # 0) =>
        /\ rgbMax(ArgLinear) >= Unit
        /\ \A c \in 1..3 :
             /\ ArgNormalized[c] <= Unit
             /\ Abs(ArgNormalized[c]) <= Abs(ArgLinear[c])
        /\ (\A c \in 1..3 : ArgLinear[c] <= Unit) => ArgNormalized = ArgLinear

\* light at 575 nm: the red channel is 1.63 before the division and 1 after
C13_Witness ==
    /\ ColDone
    /\ colArgs[40] = [wl |-> 575, intensity |-> Unit]
    /\ ArgLinear[1] > Unit
    /\ ArgNormalized[1] = Unit
    /\ ArgNormalized[2] > 0
    /\ ArgNormalized[2] < ArgLinear[2]

(***************************************************************************)
(* Claims about calculateCRI (checked under SpecColor).                    *)
(***************************************************************************)
CriDone == criRet # NoCall

\* every sample of the spectrum handed to the calls is 0
AllZero == \A i \in DOMAIN colArgs : colArgs[i].intensity = 0

\* C14: for a spectrum without negative intensities calculateCRI returns an
\* integer in 0..98: 0 exactly when the total intensity is 0, and a value in
\* 60..98 otherwise.
C14_CriRange ==
    CriDone =>
        /\ criRet.cri \in 0..98
        /\ (criRet.cri = 0) <=> AllZero
        /\ ~AllZero => criRet.cri \in 60..98

\* a spectrum whose balance would give more than 98 has been given 98
C14_Witness ==
    /\ CriDone
    /\ criRet.cri = 98
    /\ calculateCRINoCap(colArgs) > 98

\* the sum of the intensities of the samples lo .. hi with from < wl <= to
RECURSIVE BandSum(_, _, _, _, _)
BandSum(spectrum, lo, hi, from, to) ==
    IF lo > hi THEN 0
    ELSE IF lo = hi
         THEN (IF from < spectrum[lo].wl /\ spectrum[lo].wl <= to
               THEN spectrum[lo].intensity ELSE 0)
    ELSE BandSum(spectrum, lo, (lo + hi) \div 2, from, to)
         + BandSum(spectrum, (lo + hi) \div 2 + 1, hi, from, to)

RefRed(spectrum) == BandSum(spectrum, 1, Len(spectrum), 600, 100000)
RefGreen(spectrum) == BandSum(spectrum, 1, Len(spectrum), 510, 600)
RefBlue(spectrum) == BandSum(spectrum, 1, Len(spectrum), -1, 510)
RefTotal(spectrum) == BandSum(spectrum, 1, Len(spectrum), -1, 100000)

\* min(round(60 + 40 * min(r, g, 1.5 b) / (total / 3.5)), 98)
\*   = min(60 + round(70 * min(2 r, 2 g, 3 b) / total), 98)
RefCRI(spectrum) ==
    LET r == RefRed(spectrum)
        g == RefGreen(spectrum)
        b == RefBlue(spectrum)
        total == RefTotal(spectrum)
    IN  IF total = 0 THEN 0
        ELSE Min(60 + RoundMulDiv(Min(Min(2 * r, 2 * g), 3 * b), 70, total), 98)

\* C15: calculateCRI is the reference computation: wl > 600 is red,
\* 510 < wl <= 600 green, wl <= 510 blue, each sample in exactly one band,
\* and for total > 0 the result is
\* min(round(60 + 40 * min(r, g, 1.5 b) / (total / 3.5)), 98).
C15_CriReference ==
    CriDone =>
        LET t == BandsOf(colArgs, 1, Len(colArgs))
        IN  /\ t = <<RefTotal(colArgs), RefRed(colArgs), RefGreen(colArgs),
                     RefBlue(colArgs)>>
            /\ t[1] = t[2] + t[3] + t[4]
            /\ criRet.cri = RefCRI(colArgs)

\* light at 600 nm counted as green and not red, with a result strictly
\* between the ends of the range
C15_Witness ==
    /\ CriDone
    /\ colArgs[45] = [wl |-> 600, intensity |-> MaxFlat + 10 * MaxFlat]
    /\ RefGreen(colArgs) = 18 * MaxFlat + 10 * MaxFlat
    /\ criRet.cri > 60
    /\ criRet.cri < 98

\* the spectrum handed to the calls has one positive intensity at all points
IsFlat ==
    /\ colArgs[1].intensity > 0
    /\ \A i \in DOMAIN colArgs : colArgs[i].intensity = colArgs[1].intensity

\* C16: on a flat spectrum, the same positive intensity c at all 81 grid
\* points, calculateCRI returns 91 whatever c is: 36 red, 18 green and 27
\* blue samples; 91 is within 60..98.
C16_FlatSpectrum ==
    (CriDone /\ IsFlat) =>
        /\ BandsOf(colArgs, 1, Len(colArgs)) =
              <<81 * colArgs[1].intensity, 36 * colArgs[1].intensity,
                18 * colArgs[1].intensity, 27 * colArgs[1].intensity>>
        /\ criRet.cri = 91

\* the flat spectrum of intensity 0.0007
C16_Witness ==
    /\ CriDone
    /\ IsFlat
    /\ Len(colArgs) = 81
    /\ colArgs[1].intensity = 7
    /\ criRet.cri = 91

(***************************************************************************)
(* Claims about the pipeline (checked under SpecPipeline).                 *)
(***************************************************************************)
PipeDone == pipeRet # NoCall

\* the unmixed spectrum of the run: generateCompositeSpectrum at the peak
\* wavelength the run returned
PipeHost == generateCompositeSpectrum(pipeRet.centerWl, pipeArgs.fwhm, pipeArgs.zrDoping)

\* C17: the returned colour is calculateColorFromSpectrum of the unmixed
\* spectrum of generateCompositeSpectrum, the returned CRI is calculateCRI of
\* the mixed spectrum, and the returned spectrum is the mixed one; the colour
\* is a function of the unmixed spectrum alone.
C17_ColourOfHostCriOfMixed ==
    PipeDone =>
        /\ pipeRet.centerWl =
              calculateEmissionParams(pipeArgs.radius, pipeArgs.reactionTime,
                                      pipeArgs.isCoreShell).wl
        /\ \A host \in {PipeHost} :
              /\ pipeRet.sphereColor = calculateColorFromSpectrum(host).hex
              /\ pipeRet.spectrum =
                    mixedSpectrum(host, getBlueLEDSpectrum, pipeArgs.zrDoping)
        /\ pipeRet.criScore = calculateCRI(pipeRet.spectrum)

\* a run whose colour and CRI would both differ had they been taken from the
\* other spectrum
C17_Witness ==
    /\ PipeDone
    /\ pipeRet.spectrum # PipeHost
    /\ pipeRet.sphereColor # calculateColorFromSpectrum(pipeRet.spectrum).hex
    /\ pipeRet.criScore # calculateCRI(PipeHost)

\* max(0.2, 1 - 2 * zrConc) for zrConc in hundredths, as a fixed-point number
RefFactor(zrConc) ==
    IF 100 - 2 * zrConc >= 20 THEN (100 - 2 * zrConc) * (Unit \div 100) ELSE Unit \div 5

\* C18: at each of the 81 grid indices the mixed sample has the wavelength
\* of the unmixed one and the intensity
\* host * max(0.2, 1 - 2 * zrConc) + 0.4 * excitation, where the excitation
\* is generateGaussianSpectrum(455, 20), which has a sample at every index.
C18_MixedFormula ==
    PipeDone =>
        \A excitation \in {generateGaussianSpectrum(4550, 20)}, host \in {PipeHost} :
            /\ DOMAIN pipeRet.spectrum = 1..81
            /\ DOMAIN host = 1..81
            /\ DOMAIN excitation = 1..81
            /\ \A i \in 1..81 :
                  /\ pipeRet.spectrum[i].wl = host[i].wl
                  /\ pipeRet.spectrum[i].intensity =
                        FMul(host[i].intensity, RefFactor(pipeArgs.zrDoping))
                        + FMul(excitation[i].intensity, 4000)

\* a doped run: at 455 nm the mixed sample holds 0.4 of excitation on top of
\* the damped host
C18_Witness ==
    /\ PipeDone
    /\ pipeArgs.zrDoping = 15
    /\ RefFactor(pipeArgs.zrDoping) = 7000
    /\ pipeRet.spectrum[16].wl = 455
    /\ pipeRet.spectrum[16].intensity = FMul(PipeHost[16].intensity, 7000) + 4000
    /\ PipeHost[16].intensity > 0

LatDone == latRet # NoCall

\* the square of the distance of two positions, in 1/6400
SquaredDistance(p, q) ==
    (p[1] - q[1]) * (p[1] - q[1]) + (p[2] - q[2]) * (p[2] - q[2])
        + (p[3] - q[3]) * (p[3] - q[3])

\* distance below 0.8: squared distance below 0.64 = 4096/6400
Near(p, q) == SquaredDistance(p, q) < 4096

\* C20: each bond starts at an S atom of the returned list and ends at an
\* Ag, Ga or Zr atom of the list less than 0.8 away; every S atom and
\* cation less than 0.8 apart have a bond; no bond occurs twice.
C20_Bonds ==
    LatDone =>
        \A atoms \in {latRet.atoms}, bonds \in {latRet.bonds} :
            /\ \A m \in DOMAIN bonds :
                  /\ \E i \in DOMAIN atoms :
                        atoms[i].pos = bonds[m].start /\ atoms[i].type = "S"
                  /\ \E j \in DOMAIN atoms :
                        atoms[j].pos = bonds[m].end /\ atoms[j].type \in {"Ag", "Ga", "Zr"}
                  /\ Near(bonds[m].start, bonds[m].end)
            /\ \A i, j \in DOMAIN atoms :
                  (atoms[i].type = "S" /\ atoms[j].type # "S"
                      /\ Near(atoms[i].pos, atoms[j].pos)) =>
                  \E m \in DOMAIN bonds :
                      bonds[m].start = atoms[i].pos /\ bonds[m].end = atoms[j].pos
            /\ \A m, k \in DOMAIN bonds : bonds[m] = bonds[k] => m = k

\* a cluster with a Zr atom that holds a bond, and an S atom and a cation
\* that are too far apart for one
C20_Witness ==
    /\ LatDone
    /\ latArgs.mode = "cluster"
    /\ Len(latRet.bonds) = 133
    /\ \E j \in DOMAIN latRet.atoms :
         /\ latRet.atoms[j].type = "Zr"
         /\ \E m \in DOMAIN latRet.bonds : latRet.bonds[m].end = latRet.atoms[j].pos
    /\ \E i, j \in DOMAIN latRet.atoms :
         /\ latRet.atoms[i].type = "S"
         /\ latRet.atoms[j].type = "Ag"
         /\ ~Near(latRet.atoms[i].pos, latRet.atoms[j].pos)

\* the atoms of the given types in a list of atoms
OfType(atoms, types) == {k \in DOMAIN atoms : atoms[k].type \in types}

\* zrConc / 2 capped at 1, zrConc in hundredths
HalfConcCapped(zrConc) == IF zrConc >= 200 THEN Rat(1, 1) ELSE Rat(zrConc, 200)

EmInDomain ==
    /\ emArgs # NoCall
    /\ 20 <= emArgs.radius /\ emArgs.radius <= 60
    /\ 30 <= emArgs.reactionTime /\ emArgs.reactionTime <= 90

\* C23: on the documented domain the clamp of calculateEmissionParams is
\* never active: the emission energy is positive, 1240 / E lies strictly
\* between 400 and 700 (E strictly between 1240/700 and 1240/400), within
\* 551 nm to 640 nm, and the returned wl is 1240 / E rounded to 1 decimal.
C23_ClampInactive ==
    EmInDomain =>
        \A E \in {emissionEnergy(emArgs.radius, emArgs.reactionTime, emArgs.isCoreShell)} :
            /\ E[1] > 0
            /\ RSub(E, Rat(1240, 700))[1] > 0
            /\ RSub(E, Rat(1240, 400))[1] < 0
            /\ emRet.wl = RoundHalfUp(MulDivMod(E[2], 12400, E[1]), E[1])
            /\ 5510 <= emRet.wl /\ emRet.wl <= 6400

\* the longest wavelength of the domain: radius 4 nm with the shell at 30 min
C23_Witness ==
    /\ EmInDomain
    /\ emArgs.isCoreShell
    /\ emArgs.radius = 40
    /\ emArgs.reactionTime = 30
    /\ emRet.wl = 6392

\* a run with radius in [2, 6] nm, reactionTime in [30, 90] min and zrDoping in
\* [0, 0.3] mmol
PipeInDomain ==
    /\ PipeDone
    /\ 20 <= pipeArgs.radius /\ pipeArgs.radius <= 60
    /\ 30 <= pipeArgs.reactionTime /\ pipeArgs.reactionTime <= 90
    /\ 0 <= pipeArgs.zrDoping /\ pipeArgs.zrDoping <= 30

\* C24: on the documented domain the mixed spectrum has a positive total
\* intensity and the returned CRI lies in 60..98, the unmixed spectrum has a
\* positive tristimulus sum and the colour is not the black fallback, and
\* the damping factor is 1 - 2 * zrConc >= 0.4, above its floor of 0.2.
C24_NoDegenerateBranch ==
    PipeInDomain =>
        \A XYZ \in {Tristimulus(PipeHost)} :
            /\ RefTotal(pipeRet.spectrum) > 0
            /\ pipeRet.criScore \in 60..98
            /\ XYZ[1] + XYZ[2] + XYZ[3] > 0
            /\ pipeRet.sphereColor # "#000000"
            /\ qdIntensityFactor(pipeArgs.zrDoping) >= 4000
            /\ qdIntensityFactor(pipeArgs.zrDoping)
                  = Unit - 2 * pipeArgs.zrDoping * (Unit \div 100)

\* the corner of the domain where the damping factor is smallest and the
\* host peak has vanished from the unmixed spectrum
C24_Witness ==
    /\ PipeInDomain
    /\ pipeArgs.radius = 60
    /\ pipeArgs.reactionTime = 90
    /\ pipeArgs.zrDoping = 30
    /\ qdIntensityFactor(pipeArgs.zrDoping) = 4000
    /\ baseWeight(pipeArgs.zrDoping) = 0

(***************************************************************************)
(* Claims about the App's state (checked under SpecApp).                   *)
(***************************************************************************)
\* C22: in every reachable state of App the inputs handed to the pipeline
\* lie in their documented ranges: radius in [2, 6] nm, reactionTime one of
\* 30, 35, ..., 90, zrDoping in [0, 0.3] and isCoreShell a boolean.
C22_InputsInRange ==
    \A given \in {memo.deps, memoDeps(app)} :
        /\ 20 <= given.radius /\ given.radius <= 60
        /\ given.reactionTime \in {30 + 5 * j : j \in 0..12}
        /\ 0 <= given.zrDoping /\ given.zrDoping <= 30
        /\ given.isCoreShell \in BOOLEAN

\* both sliders at their upper end and the shell switched off
C22_Witness ==
    /\ memo.deps.reactionTime = 90
    /\ memo.deps.zrDoping = 30
    /\ ~memo.deps.isCoreShell
    /\ memo.deps = memoDeps(app)

Controls(state) == <<state.reactionTime, state.zrDoping, state.isCoreShell>>

====
